---- MODULE Spec2Model ----
(***************************************************************************)
(* The form navigation store of src/context/MultiStepFormContext.tsx:      *)
(* the reducer multiStepFormReducer, the hook useMultiStepForm that wires  *)
(* it to React's useReducer and exposes next/back/goTo/updateFormData, and *)
(* the value the hook returns on every render.                             *)
(*                                                                         *)
(* JavaScript values are modelled as follows.  An object is a record; a    *)
(* string primitive handed to dispatch is JSString(s); undefined is        *)
(* Undefined; array indices are 0-based in the code and 1-based in the     *)
(* sequences below, so steps[i] of the code is steps[i + 1] here.          *)
(*                                                                         *)
(* dispatch only enqueues an update; React runs the reducer over the       *)
(* pending updates, in order, when it renders the component again.  An     *)
(* exception thrown by the reducer or by the body of the hook is thrown    *)
(* out of the render: the session is torn down and commits nothing.        *)
(***************************************************************************)
EXTENDS Integers, Sequences, FiniteSets, TLC

\* ---------------------------------------------------------------- bounds
MaxSteps == 2
MaxSubSteps == 2
MaxCalls == 2
MaxGlobal == 1

\* ------------------------------------------------------------ JS values
Undefined == "undefined"

JSString(s) == [js |-> "string", s |-> s]

\* enum Types
Types_next == "NEXT"
Types_prev == "PREV"
Types_goto == "GOTO"
Types_updateFormData == "UPDATE_FORM_DATA"

\* x.p for a value x that is a string primitive or an object
HasProp(x, p) == x.js = "object" /\ p \in DOMAIN x
Prop(x, p) == IF HasProp(x, p) THEN x[p] ELSE Undefined

\* { ...a, ...b }
Spread(a, b) == [k \in (DOMAIN a) \cup (DOMAIN b) |-> IF k \in DOMAIN b THEN b[k] ELSE a[k]]

\* --------------------------------------------------------------- fields
Fields == {"firstName", "lastName", "age", "street", "city", "state", "zip", "email", "password", "code"}

initialFormData == [f \in Fields |-> ""]

\* the partial mappings a caller passes to updateFormData
TouchedFields == {"firstName", "lastName"}
TouchedValues == {"x", "y"}
Partials == UNION {[S -> TouchedValues] : S \in SUBSET TouchedFields}

\* ------------------------------------------------------------ step tree
Unit(i, j) == "unit_" \o ToString(i) \o "_" \o ToString(j)

TreeOfShape(shape) == [i \in DOMAIN shape |-> [j \in 1..shape[i] |-> Unit(i - 1, j - 1)]]

\* props.steps: one or more steps of one or more opaque units each
StepTrees == {TreeOfShape(shape) : shape \in UNION {[1..n -> 1..MaxSubSteps] : n \in 1..MaxSteps}}

\* ---------------------------------------------- the global environment
\* The hook's return statement reads activeStepIndex, activeSubStepIndex
\* and formData as free identifiers: nothing in the module binds them, so
\* they resolve against the global object of the host page.  Either they
\* are not bound there (the read throws a ReferenceError) or they are bound
\* to values that have nothing to do with the reducer's state.
envFormData == [f \in Fields |-> "env"]

Globals ==
  {[bound |-> FALSE, activeStepIndex |-> 0, activeSubStepIndex |-> 0, formData |-> envFormData]}
  \cup [bound : {TRUE}, activeStepIndex : 0..MaxGlobal, activeSubStepIndex : 0..MaxGlobal,
        formData : {envFormData}]

\* -------------------------------------------------------------- reducer
Return(s) == [threw |-> FALSE, state |-> s, error |-> "none"]
Throw(s, e) == [threw |-> TRUE, state |-> s, error |-> e]

TypeError == "TypeError"
ReferenceError == "ReferenceError"
InvalidActionType(t) == "Invalid action type: " \o t

\* steps[i] is an array (not undefined)
HasStep(stepList, i) == (i + 1) \in DOMAIN stepList

caseNext(state) ==
  LET activeStepIndex == state.activeStepIndex
      activeSubStepIndex == state.activeSubStepIndex
      nextSubStepIndex == activeSubStepIndex + 1
  IN  IF ~("steps" \in DOMAIN state) THEN Throw(state, TypeError)
      ELSE IF ~HasStep(state.steps, activeStepIndex) THEN Throw(state, TypeError)
      ELSE IF Len(state.steps[activeStepIndex + 1]) > 1
           THEN IF nextSubStepIndex = Len(state.steps[activeStepIndex + 1])
                THEN Return([state EXCEPT !.activeStepIndex = activeStepIndex + 1,
                                          !.activeSubStepIndex = 0])
                ELSE Return([state EXCEPT !.activeSubStepIndex = nextSubStepIndex])
           ELSE Return([state EXCEPT !.activeStepIndex = activeStepIndex + 1,
                                     !.activeSubStepIndex = 0])

casePrev(state) ==
  Return([state EXCEPT !.activeStepIndex = state.activeStepIndex - 1,
                       !.activeSubStepIndex = 0])

caseGoto(state, action) ==
  LET index == Prop(action, "index")
  IN  Return([state EXCEPT !.activeStepIndex = index, !.activeSubStepIndex = 0])

caseUpdateFormData(state, action) ==
  LET fields == IF HasProp(action, "fields") THEN action.fields ELSE <<>>
  IN  Return([state EXCEPT !.formData = Spread(state.formData, fields)])

\* the reducer with a default branch that ignores the action instead of throwing
multiStepFormReducerIgnoresUnknown(state, action) ==
  LET type == Prop(action, "type")
  IN  CASE type = "NEXT" -> caseNext(state)
        [] type = "PREV" -> casePrev(state)
        [] type = "GOTO" -> caseGoto(state, action)
        [] type = "UPDATE_FORM_DATA" -> caseUpdateFormData(state, action)
        [] OTHER -> Return(state)

multiStepFormReducer(state, action) ==
  LET type == Prop(action, "type")
  IN  CASE type = "NEXT" -> caseNext(state)
        [] type = "PREV" -> casePrev(state)
        [] type = "GOTO" -> caseGoto(state, action)
        [] type = "UPDATE_FORM_DATA" -> caseUpdateFormData(state, action)
        [] OTHER -> Throw(state, InvalidActionType(type))

\* ----------------------------------------------------------------- state
VARIABLES
  steps,      \* props.steps
  globals,    \* the host page's bindings of the hook's free identifiers
  state,      \* the state useReducer holds
  queue,      \* the calls dispatched since the last render
  status,     \* "active" | "crashed"
  error,      \* what the last render threw, "none" if nothing
  value,      \* the MultiStepForm the provider hands to its consumers
  log,        \* every application of the reducer since the session started
  read        \* the outcome of the last useMultiStepFormContext() of a consumer

vars == <<steps, globals, state, queue, status, error, value, log, read>>

\* createContext<MultiStepForm | null>(null)
Null == [null |-> TRUE]

\* the first argument of useReducer with the substep counted from 1
initialStateOneBased == [activeStepIndex |-> 0, activeSubStepIndex |-> 1, formData |-> initialFormData]

\* the first argument of useReducer
initialState == [activeStepIndex |-> 0, activeSubStepIndex |-> 0, formData |-> initialFormData]

\* the return statement of useMultiStepForm
hookReturn(stepList, g) ==
  IF ~g.bound THEN [threw |-> TRUE, error |-> ReferenceError, value |-> Null]
  ELSE IF ~HasStep(stepList, g.activeStepIndex) THEN [threw |-> TRUE, error |-> TypeError, value |-> Null]
  ELSE [threw |-> FALSE, error |-> "none",
        value |-> [activeStepIndex |-> g.activeStepIndex,
                   activeSubStepIndex |-> g.activeSubStepIndex,
                   step |-> IF (g.activeSubStepIndex + 1) \in DOMAIN stepList[g.activeStepIndex + 1]
                            THEN stepList[g.activeStepIndex + 1][g.activeSubStepIndex + 1]
                            ELSE Undefined,
                   steps |-> stepList,
                   isFirstStep |-> (g.activeStepIndex = 0),
                   isLastStep |-> (g.activeStepIndex = Len(stepList) - 1),
                   formData |-> g.formData]]

\* React's dispatch takes one argument, the action; anything after it is dropped
dispatch(action, rest) == action

\* what the reducer receives from each handle
nextDispatch == dispatch(JSString(Types_next), <<>>)

\* back() handing the reducer an action object
backDispatchesObject == dispatch([js |-> "object", type |-> Types_prev], <<>>)

backDispatch == dispatch(JSString(Types_prev), <<>>)

goToDispatch(index) == dispatch(JSString(Types_goto), [index |-> index])

\* updateFormData() dispatching the action of back()
updateFormDataDispatchesPrev(fields) == dispatch([js |-> "object", type |-> Types_prev], [fields |-> fields])

updateFormDataDispatch(fields) == dispatch(JSString(Types_updateFormData), [fields |-> fields])

Call(op, index, fields, action) == [op |-> op, index |-> index, fields |-> fields, action |-> action]

\* the reducer applied to the pending updates in dispatch order; once an
\* update throws, the render is abandoned and the updates behind it never run
RECURSIVE Reduce(_, _, _)
Reduce(s, q, abandoned) ==
  IF q = <<>> THEN <<>>
  ELSE IF abandoned
       THEN <<[call |-> Head(q), ran |-> FALSE, before |-> s, after |-> s,
               threw |-> FALSE, error |-> "none"]>> \o Reduce(s, Tail(q), TRUE)
       ELSE LET r == multiStepFormReducer(s, Head(q).action)
            IN  <<[call |-> Head(q), ran |-> TRUE, before |-> s, after |-> r.state,
                   threw |-> r.threw, error |-> r.error]>> \o Reduce(r.state, Tail(q), r.threw)

SessionError == "useMultiStepFormContext must be used within a MultiStepFormProvider"

\* useContext(MultiStepFormContext): the value of the enclosing provider, the
\* default of createContext when there is none
useContext(inside, providerValue) == IF inside THEN providerValue ELSE Null

\* the body of useMultiStepFormContext without its guard
contextReadUnchecked(context) == [threw |-> FALSE, error |-> "none", context |-> context]

\* the body of useMultiStepFormContext after useContext
contextRead(context) ==
  IF context = Null
  THEN [threw |-> TRUE, error |-> SessionError, context |-> Null]
  ELSE [threw |-> FALSE, error |-> "none", context |-> context]

CanCall == status = "active" /\ Len(log) + Len(queue) < MaxCalls

Init ==
  /\ steps \in StepTrees
  /\ globals \in Globals
  /\ state = initialState
  /\ queue = <<>>
  /\ LET r == hookReturn(steps, globals)
     IN  /\ status = IF r.threw THEN "crashed" ELSE "active"
         /\ error = r.error
         /\ value = r.value
  /\ log = <<>>
  /\ read = [done |-> FALSE, inside |-> FALSE, threw |-> FALSE, error |-> "none", context |-> Null]

next ==
  /\ CanCall
  /\ queue' = Append(queue, Call("next", 0, <<>>, nextDispatch))
  /\ UNCHANGED <<steps, globals, state, status, error, value, log, read>>

back ==
  /\ CanCall
  /\ queue' = Append(queue, Call("back", 0, <<>>, backDispatch))
  /\ UNCHANGED <<steps, globals, state, status, error, value, log, read>>

goTo ==
  /\ CanCall
  /\ \E index \in -1..MaxSteps :
       queue' = Append(queue, Call("goTo", index, <<>>, goToDispatch(index)))
  /\ UNCHANGED <<steps, globals, state, status, error, value, log, read>>

updateFormData ==
  /\ CanCall
  /\ \E fields \in Partials :
       queue' = Append(queue, Call("updateFormData", 0, fields, updateFormDataDispatch(fields)))
  /\ UNCHANGED <<steps, globals, state, status, error, value, log, read>>

\* the render React schedules after dispatch: useReducer, then the return statement
useMultiStepForm ==
  /\ status = "active"
  /\ queue # <<>>
  /\ LET run == Reduce(state, queue, FALSE)
         failed == {i \in DOMAIN run : run[i].threw}
         v == hookReturn(steps, globals)
     IN  /\ log' = log \o run
         /\ state' = IF failed = {} THEN run[Len(run)].after ELSE state
         /\ status' = IF failed = {} /\ ~v.threw THEN "active" ELSE "crashed"
         /\ error' = IF failed = {} THEN v.error ELSE run[CHOOSE i \in failed : TRUE].error
         /\ value' = IF failed = {} THEN v.value ELSE Null
  /\ queue' = <<>>
  /\ UNCHANGED <<steps, globals, read>>

\* a consumer component renders and reads the context; the children of a
\* provider render only while the provider's own render succeeds
useMultiStepFormContext ==
  /\ \E inside \in BOOLEAN :
       /\ inside => status = "active"
       /\ LET r == contextRead(useContext(inside, value))
          IN  read' = [done |-> TRUE, inside |-> inside, threw |-> r.threw,
                       error |-> r.error, context |-> r.context]
  /\ UNCHANGED <<steps, globals, state, queue, status, error, value, log>>

Next == next \/ back \/ goTo \/ updateFormData \/ useMultiStepForm \/ useMultiStepFormContext

Spec == Init /\ [][Next]_vars

\* ------------------------------------------------------------ properties
\* the number of substeps of step i of the step tree
SubStepCount(i) == Len(steps[i + 1])

\* (s, j) is a position of the step tree
ValidPosition(s, j) == HasStep(steps, s) /\ (j + 1) \in DOMAIN steps[s + 1]

\* the logged call completed and left the store at position (s, j)
Yields(e, s, j) ==
  /\ e.ran
  /\ ~e.threw
  /\ e.after.activeStepIndex = s
  /\ e.after.activeSubStepIndex = j

StepBefore(e) == e.before.activeStepIndex

SubStepBefore(e) == e.before.activeSubStepIndex

\* C1: next() from a position (s, j) of a step with more than one substep,
\* j not the last substep of s, yields (s, j + 1).
C1_NextWithinStep ==
  \A i \in DOMAIN log :
    LET e == log[i]
    IN  (/\ e.call.op = "next"
         /\ ValidPosition(StepBefore(e), SubStepBefore(e))
         /\ SubStepCount(StepBefore(e)) > 1
         /\ SubStepBefore(e) # SubStepCount(StepBefore(e)) - 1)
        => Yields(e, StepBefore(e), SubStepBefore(e) + 1)

\* C2: next() from a position (s, j) where step s has exactly one substep or
\* j is the last substep of s yields (s + 1, 0).
C2_NextLeavesStep ==
  \A i \in DOMAIN log :
    LET e == log[i]
    IN  (/\ e.call.op = "next"
         /\ ValidPosition(StepBefore(e), SubStepBefore(e))
         /\ \/ SubStepCount(StepBefore(e)) = 1
            \/ SubStepBefore(e) = SubStepCount(StepBefore(e)) - 1)
        => Yields(e, StepBefore(e) + 1, 0)

\* C3: m consecutive calls of next() that start at (s, 0) of a step with
\* N > 1 substeps leave the store at (s, m) while m < N and at (s + 1, 0)
\* when m = N.
C3_NextWalksStep ==
  \A i \in DOMAIN log : \A k \in DOMAIN log :
    LET s == StepBefore(log[i])
        m == k - i + 1
    IN  (/\ i <= k
         /\ \A n \in i..k : log[n].call.op = "next"
         /\ ValidPosition(s, 0)
         /\ SubStepBefore(log[i]) = 0
         /\ SubStepCount(s) > 1
         /\ m <= SubStepCount(s))
        => IF m < SubStepCount(s) THEN Yields(log[k], s, m) ELSE Yields(log[k], s + 1, 0)

\* C4: back() from any position (s, j) yields (s - 1, 0).
C4_BackToPreviousStep ==
  \A i \in DOMAIN log :
    LET e == log[i]
    IN  (e.call.op = "back" /\ ValidPosition(StepBefore(e), SubStepBefore(e)))
        => Yields(e, StepBefore(e) - 1, 0)

\* C5: next() immediately followed by back() from a valid position (s, j)
\* lands on (s, 0).
C5_NextThenBack ==
  \A i \in DOMAIN log :
    (/\ i + 1 \in DOMAIN log
     /\ log[i].call.op = "next"
     /\ log[i + 1].call.op = "back"
     /\ ValidPosition(StepBefore(log[i]), SubStepBefore(log[i])))
    => Yields(log[i + 1], StepBefore(log[i]), 0)

\* C6: goTo(k) yields (k, 0) for every k and every prior position.
C6_GoToYieldsIndex ==
  \A i \in DOMAIN log :
    log[i].call.op = "goTo" => Yields(log[i], log[i].call.index, 0)

\* C7: updateFormData(partial) completes; afterwards every field named in
\* partial holds the value given there and every other field its prior value.
C7_UpdateMerges ==
  \A i \in DOMAIN log :
    LET e == log[i]
    IN  e.call.op = "updateFormData"
        => /\ e.ran
           /\ ~e.threw
           /\ \A f \in Fields :
                e.after.formData[f] = IF f \in DOMAIN e.call.fields
                                      THEN e.call.fields[f]
                                      ELSE e.before.formData[f]

\* C8: no call made through next, back, goTo or updateFormData reaches the
\* default branch of the reducer.
C8_NoInvalidActionType ==
  \A i \in DOMAIN log :
    log[i].error # InvalidActionType(Prop(log[i].call.action, "type"))

\* C9: while a session is active, the isFirstStep it exposes is true exactly
\* when the store's step index is 0 and the isLastStep it exposes exactly
\* when the store's step index is steps.length - 1.
C9_FlagsFollowPosition ==
  status = "active" =>
    /\ value.isFirstStep <=> (state.activeStepIndex = 0)
    /\ value.isLastStep <=> (state.activeStepIndex = Len(steps) - 1)

C11_OutOfRangePassedThrough ==
  \A i \in DOMAIN log :
    LET e == log[i]
        s == StepBefore(e)
        j == SubStepBefore(e)
    IN  /\ (/\ e.call.op = "next"
            /\ ValidPosition(s, j)
            /\ s = Len(steps) - 1
            /\ j = SubStepCount(s) - 1)
           => Yields(e, Len(steps), 0)
        /\ (e.call.op = "back" /\ s = 0) => Yields(e, -1, 0)
        /\ (e.call.op = "goTo" /\ e.call.index \notin 0..(Len(steps) - 1))
           => Yields(e, e.call.index, 0)

\* C12: every dispatched call completes: it is run by the reducer and
\* produces a next state instead of failing.
C12_CallCompletes ==
  \A i \in DOMAIN log : log[i].ran /\ ~log[i].threw /\ log[i].error = "none"

\* the four action kinds the reducer has a case for
Kinds == {Types_next, Types_prev, Types_goto, Types_updateFormData}

\* the reducer was handed an action whose kind is not one of the four
UnknownKind(e) == e.ran /\ Prop(e.call.action, "type") \notin Kinds

\* C13: an action whose kind is outside {NEXT, PREV, GOTO, UPDATE_FORM_DATA}
\* ends in the explicit error and produces no next state: the session stops
\* and position and fields are what they were before the action.
C13_UnknownKindThrows ==
  \A i \in DOMAIN log :
    LET e == log[i]
    IN  UnknownKind(e)
        => /\ e.threw
           /\ e.error = InvalidActionType(Prop(e.call.action, "type"))
           /\ e.after = e.before
           /\ status = "crashed"
           /\ state = e.before

\* the reducer has been handed an action of unknown kind by a rendered call
C13_Witness ==
  \E i \in DOMAIN log : UnknownKind(log[i]) /\ log[i].threw /\ status = "crashed"

\* C14: a consumer that reads the context with no provider around it gets
\* the explicit session error and no value; a consumer inside an active
\* session gets the MultiStepForm of that session and no error.
C14_ContextAccess ==
  read.done =>
    IF read.inside
    THEN /\ ~read.threw
         /\ read.error = "none"
         /\ read.context # Null
         /\ read.context.steps = steps
         /\ status = "active" => read.context = value
    ELSE /\ read.threw
         /\ read.error = SessionError
         /\ read.context = Null

\* a consumer outside every provider has read the context
C14_Witness == read.done /\ ~read.inside /\ read.threw

\* C15: the dispatched calls are applied in dispatch order and none is
\* dropped: every call is run by the reducer, each on the state the call
\* before it produced, starting from the initial state, and once nothing is
\* pending the store holds the state the last call produced.
C15_AppliedInDispatchOrder ==
  /\ \A i \in DOMAIN log : log[i].ran
  /\ \A i \in DOMAIN log : (i + 1) \in DOMAIN log => log[i + 1].before = log[i].after
  /\ log # <<>> => log[1].before = initialState
  /\ (log # <<>> /\ queue = <<>>) => state = log[Len(log)].after

\* C16: a session starts at position (0, 0) with all ten fields empty and
\* with the step tree it was created with in its state.
C16_InitialState ==
  (log = <<>> /\ queue = <<>>) =>
    /\ state.activeStepIndex = 0
    /\ state.activeSubStepIndex = 0
    /\ \A f \in Fields : state.formData[f] = ""
    /\ "steps" \in DOMAIN state
    /\ state.steps = steps

FlagsAtCall == hookReturn(steps, globals).value

\* the call respects the caller's side of the contract: next() only while
\* isLastStep is false, back() only while isFirstStep is false, goTo(k) only
\* with 0 <= k < steps.length
Guarded(call) ==
  CASE call.op = "next" -> ~FlagsAtCall.isLastStep
    [] call.op = "back" -> ~FlagsAtCall.isFirstStep
    [] call.op = "goTo" -> call.index \in 0..(Len(steps) - 1)
    [] OTHER -> TRUE

\* every call made so far, rendered or pending
CallsMade == [i \in 1..(Len(log) + Len(queue)) |->
                IF i <= Len(log) THEN log[i].call ELSE queue[i - Len(log)]]

\* C19: if every call made is guarded, the store's position is a position
\* of the tree and the session exposes a defined current unit.
C19_GuardedUseKeepsUnitDefined ==
  (\A i \in DOMAIN CallsMade : Guarded(CallsMade[i]))
  => /\ ValidPosition(state.activeStepIndex, state.activeSubStepIndex)
     /\ status = "active"
     /\ value.step # Undefined

====
